---- MODULE Spec2Model ----
(***************************************************************************)
(* Model of the client-side scripts of dnd-tracker (static/js/main.js and  *)
(* its other revisions): auto-focus of the 2FA code input, auto-submit     *)
(* after six characters, and auto-dismiss of error flash messages.         *)
(*                                                                         *)
(* The page runs on one event loop.  A step of the model is one task of    *)
(* that loop: one DOMContentLoaded listener, one input event, one timer    *)
(* callback, or a step of the environment (time passing, the user          *)
(* detaching an element, submitting by hand or leaving the page).          *)
(***************************************************************************)
EXTENDS Integers, Sequences, FiniteSets, TLC

\* ------------------------------------------------------------------ bounds
MaxElems       == 1   \* input elements on a page whose events are followed
MaxLookupElems == 3   \* input elements on a page whose lookup is followed
MaxAlerts      == 2   \* .alert-error elements on the page
MaxInputs      == 2   \* input events dispatched during one page's lifetime
MaxTicks       == 2   \* clock advances during one page's lifetime
MaxAdded       == 1   \* input elements added to a page after page-ready

\* --------------------------------------------------- constants of the code
CodeLength   == 6                   \* e.target.value.length === 6
SubmitDelay  == 500                 \* setTimeout(..., 500)
\* Variant: the delay given in seconds.
DismissDelaySeconds == 5 * 60
DismissDelay == 5 * 60 * 1000       \* 5 minutes in milliseconds
FadeDelay    == 500                 \* setTimeout(function() { message.remove() }, 500)

Null == "null"
TimerKinds == {"submit", "dismiss", "remove"}
NoElem == 0

\* The three scripts of the repository, by the listeners each registers for
\* DOMContentLoaded, in registration order.
Scripts == {"main.js", "part_000", "part_001"}

Handlers(s) ==
    CASE s = "main.js"  -> <<"focus", "submit">>
      [] s = "part_000" -> <<"focus", "focus", "submit", "flash">>
      [] s = "part_001" -> <<"focus">>

\* ------------------------------------------------------------- the page
\* An input element as the selectors of the scripts see it.
Elements ==
    [id : {"code", ""}, pattern : {"[0-9]{6}", ""}, maxlength : {"6", ""}]

\* Identifiers are unique in a document.
UniqueId(p) ==
    \A i, j \in 1..Len(p) : (p[i].id = "code" /\ p[j].id = "code") => i = j

SeqsUpTo(S, n) == UNION {[1..k -> S] : k \in 0..n}

PagesUpTo(n) == {p \in SeqsUpTo(Elements, n) : UniqueId(p)}

\* An error flash message: with or without a .btn-close child.
AlertLists == SeqsUpTo([closeButton : BOOLEAN], MaxAlerts)

\* Values an input event can leave in a field: lengths 0, 5, 6 and 7,
\* digits and other characters.
Values ==
    { <<>>,
      <<"1", "2", "3", "4", "5">>,
      <<"1", "2", "3", "4", "5", "6">>,
      <<"a", "b", "c", "d", "e", "f">>,
      <<"1", "2", "3", "4", "5", "6", "7">> }

\* The characters [0-9] of the pattern attribute, and the values made of them.
Digits == {"0", "1", "2", "3", "4", "5", "6", "7", "8", "9"}

AllDigits(v) == \A i \in 1..Len(v) : v[i] \in Digits
\* Durations by which the clock advances in one step, in milliseconds.
TickSteps == {250, DismissDelay}

VARIABLES
    script,      \* the script the page loads
    page,        \* the input elements of the document, in document order
    form,        \* the form that contains the input elements, or null
    status,      \* per element: "attached" or "detached"
    value,       \* per element: its current value
    alerts,      \* the .alert-error elements, in document order
    alertState,  \* per alert: attached, style, clicks on its close button
    ran,         \* number of DOMContentLoaded listeners that have run
    unloaded,    \* the page has been left
    focused,     \* document.activeElement (NoElem: none)
    focusLog,    \* the elements focus() was called on, in order
    observers,   \* the elements carrying the input listener, one per addEventListener
    timers,      \* pending timers, in the order setTimeout created them
    now,         \* milliseconds since DOMContentLoaded
    ticks,       \* clock advances so far
    inputs,      \* input events so far
    elapsed,     \* number of timer callbacks that have run, per kind
    submitLog,   \* invocations of form.submit()
    dismissLog,  \* dismissals of flash messages by their timers
    errors       \* uncaught exceptions

vars == <<script, page, form, status, value, alerts, alertState, ran,
          unloaded, focused, focusLog, observers, timers, now, ticks, inputs,
          elapsed, submitLog, dismissLog, errors>>

domVars   == <<page, form, status, value>>
alertVars == <<alerts, alertState>>
logVars   == <<elapsed, submitLog, dismissLog, errors>>

ElemIds  == 1..Len(page)
AlertIds == 1..Len(alerts)

Ready == ran = Len(Handlers(script))

\* ------------------------------------------------------------- selectors
Min(S) == CHOOSE x \in S : \A y \in S : x <= y

\* The elements in the document.
Attached == {i \in ElemIds : status[i] = "attached"}

\* The first element in document order among the matches S, or null.
First(S) == IF S = {} THEN NoElem ELSE Min(S)

\* Variant: the identifier misspelt, getElementById('Code').
GetElementByIdTypo == First({i \in Attached : page[i].id = "Code"})
\* document.getElementById('code')
GetElementByIdCode == First({i \in Attached : page[i].id = "code"})

\* document.querySelector('input[pattern="[0-9]{6}"]')
QueryPattern == First({i \in Attached : page[i].pattern = "[0-9]{6}"})

\* Variant: the attribute test left out, querySelector('input').
QueryAnyInput == First(Attached)
\* document.querySelector('input[maxlength="6"]')
QueryMaxlength == First({i \in Attached : page[i].maxlength = "6"})

\* Variant: the pattern rule consulted before the identifier rule.
FindCodeInputPatternFirst ==
    LET a == QueryPattern
        b == IF a = NoElem THEN GetElementByIdCode ELSE a
        c == IF b = NoElem THEN QueryMaxlength ELSE b
    IN  c

\* let codeInput = getElementById('code');
\* if (!codeInput) codeInput = querySelector('input[pattern="[0-9]{6}"]');
\* if (!codeInput) codeInput = querySelector('input[maxlength="6"]');
FindCodeInput ==
    LET a == GetElementByIdCode
        b == IF a = NoElem THEN QueryPattern ELSE a
        c == IF b = NoElem THEN QueryMaxlength ELSE b
    IN  c

\* e.target.form: the form owner; an element taken out of its form has none.
FormOf(el) == IF status[el] = "attached" THEN form ELSE Null

\* ---------------------------------------------------------------- Init
InitPage(pages, alertLists) ==
    /\ script \in Scripts
    /\ page \in pages
    /\ form \in {"form", Null}
    /\ status = [i \in 1..Len(page) |-> "attached"]
    /\ value = [i \in 1..Len(page) |-> <<>>]
    /\ alerts \in alertLists
    /\ alertState = [i \in 1..Len(alerts) |->
                        [attached |-> TRUE, opacity |-> "", transition |-> "",
                         clicks |-> 0]]
    /\ ran = 0
    /\ unloaded = FALSE
    /\ focused = NoElem
    /\ focusLog = <<>>
    /\ observers = <<>>
    /\ timers = <<>>
    /\ now = 0
    /\ ticks = 0
    /\ inputs = 0
    /\ elapsed = [k \in TimerKinds |-> 0]
    /\ submitLog = <<>>
    /\ dismissLog = <<>>
    /\ errors = 0

\* The whole program: a page with input elements and flash messages.
Init == InitPage(PagesUpTo(MaxElems), AlertLists)

\* Pages without flash messages, pages without input elements, and pages the
\* lookup of the code input is followed on.
InitCode   == InitPage(PagesUpTo(MaxElems), {<<>>})
InitFlash  == InitPage({<<>>}, AlertLists)
InitLookup == InitPage(PagesUpTo(MaxLookupElems), {<<>>})

\* ----------------------------------------------------------- setTimeout
\* A pending timer.  scheduledValue is history: the value the field of a
\* submit timer held when setTimeout was called, which the input event had
\* already changed; no callback reads it.
Timer(kind, target, delay) ==
    [kind |-> kind, target |-> target, delay |-> delay, due |-> now + delay,
     scheduledValue |-> IF kind = "submit" THEN value'[target] ELSE <<>>]

SetTimeout(ts, kind, target, delay) == Append(ts, Timer(kind, target, delay))

\* ------------------------------------------- DOMContentLoaded listeners
NextHandler == Handlers(script)[ran + 1]

Dispatching == ~unloaded /\ ran < Len(Handlers(script))

\* Variant: a toggle, the element blurred when it already has the focus.
FocusHandlerToggle ==
    /\ Dispatching
    /\ NextHandler = "focus"
    /\ LET codeInput == FindCodeInput IN
         IF codeInput # NoElem
         THEN /\ focused' = IF focused = codeInput THEN NoElem ELSE codeInput
              /\ focusLog' = Append(focusLog, codeInput)
         ELSE UNCHANGED <<focused, focusLog>>
    /\ ran' = ran + 1
    /\ UNCHANGED <<script, domVars, alertVars, unloaded, observers, timers,
                   now, ticks, inputs, logVars>>

\* if (codeInput) { codeInput.focus(); }
FocusHandler ==
    /\ Dispatching
    /\ NextHandler = "focus"
    /\ LET codeInput == FindCodeInput IN
         IF codeInput # NoElem
         THEN /\ focused' = codeInput
              /\ focusLog' = Append(focusLog, codeInput)
         ELSE UNCHANGED <<focused, focusLog>>
    /\ ran' = ran + 1
    /\ UNCHANGED <<script, domVars, alertVars, unloaded, observers, timers,
                   now, ticks, inputs, logVars>>

\* if (codeInput) { codeInput.addEventListener('input', ...); }
SubmitHandler ==
    /\ Dispatching
    /\ NextHandler = "submit"
    /\ LET codeInput == FindCodeInput IN
         observers' = IF codeInput # NoElem
                      THEN Append(observers, codeInput)
                      ELSE observers
    /\ ran' = ran + 1
    /\ UNCHANGED <<script, domVars, alertVars, unloaded, focused, focusLog,
                   timers, now, ticks, inputs, logVars>>

\* errorMessages.forEach(function(message) { setTimeout(..., 5 * 60 * 1000) })
RECURSIVE ScheduleDismiss(_, _)
ScheduleDismiss(ts, i) ==
    IF i > Len(alerts) THEN ts
    ELSE ScheduleDismiss(
            IF alertState[i].attached
            THEN SetTimeout(ts, "dismiss", i, DismissDelay)
            ELSE ts,
            i + 1)

\* Variant: querySelector in place of querySelectorAll, only the first error
\* message gets a timer.
FlashHandlerFirstOnly ==
    /\ Dispatching
    /\ NextHandler = "flash"
    /\ timers' = IF alerts = <<>>
                 THEN timers
                 ELSE SetTimeout(timers, "dismiss", 1, DismissDelay)
    /\ ran' = ran + 1
    /\ UNCHANGED <<script, domVars, alertVars, unloaded, focused, focusLog,
                   observers, now, ticks, inputs, logVars>>
FlashHandler ==
    /\ Dispatching
    /\ NextHandler = "flash"
    /\ timers' = ScheduleDismiss(timers, 1)
    /\ ran' = ran + 1
    /\ UNCHANGED <<script, domVars, alertVars, unloaded, focused, focusLog,
                   observers, now, ticks, inputs, logVars>>

\* ------------------------------------------------------- the input event
\* Variant: the submit not deferred, setTimeout(..., 0).
InputListenerNoDelay(ts, target, v) ==
    IF Len(v) = CodeLength
    THEN SetTimeout(ts, "submit", target, 0)
    ELSE ts

\* Variant: the length test relaxed, e.target.value.length >= 6.
InputListenerAtLeast(ts, target, v) ==
    IF Len(v) >= CodeLength
    THEN SetTimeout(ts, "submit", target, SubmitDelay)
    ELSE ts

\* Variant: a debounce, every input event clears the field's pending timer.
InputListenerDebounce(ts, target, v) ==
    LET Other(t) == ~(t.kind = "submit" /\ t.target = target)
        kept == SelectSeq(ts, Other)
    IN  IF Len(v) = CodeLength
        THEN SetTimeout(kept, "submit", target, SubmitDelay)
        ELSE kept

\* Variant: a guard against double submission, no timer created while one is
\* pending for the field.
InputListenerSingle(ts, target, v) ==
    LET Mine(t) == t.kind = "submit" /\ t.target = target IN
    IF Len(v) = CodeLength /\ SelectSeq(ts, Mine) = <<>>
    THEN SetTimeout(ts, "submit", target, SubmitDelay)
    ELSE ts

\* Variant: the value tested against the field's pattern, /^[0-9]{6}$/.
InputListenerDigits(ts, target, v) ==
    IF Len(v) = CodeLength /\ AllDigits(v)
    THEN SetTimeout(ts, "submit", target, SubmitDelay)
    ELSE ts

\* function(e) { if (e.target.value.length === 6) { setTimeout(..., 500); } }
InputListener(ts, target, v) ==
    IF Len(v) = CodeLength
    THEN SetTimeout(ts, "submit", target, SubmitDelay)
    ELSE ts

\* The event runs every listener registered on its target, in order.
RECURSIVE DispatchInput(_, _, _, _)
DispatchInput(ts, obs, target, v) ==
    IF obs = <<>> THEN ts
    ELSE DispatchInput(
            IF Head(obs) = target THEN InputListener(ts, target, v) ELSE ts,
            Tail(obs), target, v)

\* Variant: a delegated listener, the lookup run again at every input event.
InputEventDelegated(el, v) ==
    /\ ~unloaded /\ Ready
    /\ inputs < MaxInputs
    /\ status[el] = "attached"
    /\ v # value[el]
    /\ value' = [value EXCEPT ![el] = v]
    /\ timers' = IF observers # <<>> /\ el = FindCodeInput
                 THEN InputListener(timers, el, v)
                 ELSE timers
    /\ inputs' = inputs + 1
    /\ UNCHANGED <<script, page, form, status, alertVars, ran, unloaded, focused,
                   focusLog, observers, now, ticks, logVars>>

\* The user changes the value of an attached input element.
InputEvent(el, v) ==
    /\ ~unloaded /\ Ready
    /\ inputs < MaxInputs
    /\ status[el] = "attached"
    /\ v # value[el]
    /\ value' = [value EXCEPT ![el] = v]
    /\ timers' = DispatchInput(timers, observers, el, v)
    /\ inputs' = inputs + 1
    /\ UNCHANGED <<script, page, form, status, alertVars, ran, unloaded, focused,
                   focusLog, observers, now, ticks, logVars>>

\* ------------------------------------------------------- timer callbacks
Remove(s, i) == SubSeq(s, 1, i - 1) \o SubSeq(s, i + 1, Len(s))

\* A timer runs once its delay has passed and every timer created before it
\* with an equal or shorter delay has run.
CanRun(i) ==
    /\ timers[i].due <= now
    /\ \A j \in 1..(i - 1) : timers[j].delay > timers[i].delay

\* A timer callback runs: the timer leaves the queue.
Elapse(i) ==
    /\ ~unloaded
    /\ CanRun(i)
    /\ elapsed' = [elapsed EXCEPT ![timers[i].kind] = @ + 1]
    /\ UNCHANGED <<script, domVars, alerts, ran, unloaded, focused, focusLog,
                   observers, now, ticks, inputs>>

\* form.submit(): one submission of the form with the values its fields hold.
FormSubmit(log, target) ==
    Append(log, [form |-> FormOf(target), value |-> value[target]])

\* Variant: the value read when the timer is created and submitted later,
\* const v = e.target.value; setTimeout(() => submit(v), 500).
SubmitCallbackCaptured(i) ==
    /\ timers[i].kind = "submit"
    /\ Elapse(i)
    /\ LET target == timers[i].target IN
         IF FormOf(target) = Null
         THEN /\ errors' = errors + 1
              /\ UNCHANGED submitLog
         ELSE /\ submitLog' = Append(submitLog,
                    [form |-> FormOf(target),
                     value |-> timers[i].scheduledValue])
              /\ UNCHANGED errors
    /\ timers' = Remove(timers, i)
    /\ UNCHANGED <<alertState, dismissLog>>

\* () => { e.target.form.submit(); }
SubmitCallback(i) ==
    /\ timers[i].kind = "submit"
    /\ Elapse(i)
    /\ LET target == timers[i].target IN
         IF FormOf(target) = Null
         THEN /\ errors' = errors + 1          \* TypeError: e.target.form is null
              /\ UNCHANGED submitLog
         ELSE /\ submitLog' = FormSubmit(submitLog, target)
              /\ UNCHANGED errors
    /\ timers' = Remove(timers, i)
    /\ UNCHANGED <<alertState, dismissLog>>

\* Variant: the else lost, the fallback performed whether or not the close
\* button was clicked.
DismissCallbackBoth(i) ==
    /\ timers[i].kind = "dismiss"
    /\ Elapse(i)
    /\ LET m == timers[i].target IN
         /\ alertState' = [alertState EXCEPT
                              ![m].clicks = IF alerts[m].closeButton
                                            THEN @ + 1 ELSE @,
                              ![m].transition = "opacity 0.5s",
                              ![m].opacity = "0"]
         /\ dismissLog' = Append(dismissLog, [msg |-> m, how |-> "fade"])
         /\ timers' = SetTimeout(Remove(timers, i), "remove", m, FadeDelay)
    /\ UNCHANGED <<submitLog, errors>>

\* const closeButton = message.querySelector('.btn-close');
\* if (closeButton) { closeButton.click(); }
\* else { fade out; setTimeout(function() { message.remove(); }, 500); }
DismissCallback(i) ==
    /\ timers[i].kind = "dismiss"
    /\ Elapse(i)
    /\ LET m == timers[i].target IN
         IF alerts[m].closeButton
         THEN /\ alertState' = [alertState EXCEPT ![m].clicks = @ + 1]
              /\ dismissLog' = Append(dismissLog, [msg |-> m, how |-> "click"])
              /\ timers' = Remove(timers, i)
         ELSE /\ alertState' = [alertState EXCEPT
                                   ![m].transition = "opacity 0.5s",
                                   ![m].opacity = "0"]
              /\ dismissLog' = Append(dismissLog, [msg |-> m, how |-> "fade"])
              /\ timers' = SetTimeout(Remove(timers, i), "remove", m, FadeDelay)
    /\ UNCHANGED <<submitLog, errors>>

\* Variant: the removal not bound to its message, every error message
\* removed when the first fade ends.
RemoveCallbackAll(i) ==
    /\ timers[i].kind = "remove"
    /\ Elapse(i)
    /\ alertState' = [m \in AlertIds |->
                         [alertState[m] EXCEPT !.attached = FALSE]]
    /\ timers' = Remove(timers, i)
    /\ UNCHANGED <<submitLog, dismissLog, errors>>

\* function() { message.remove(); }
RemoveCallback(i) ==
    /\ timers[i].kind = "remove"
    /\ Elapse(i)
    /\ alertState' = [alertState EXCEPT ![timers[i].target].attached = FALSE]
    /\ timers' = Remove(timers, i)
    /\ UNCHANGED <<submitLog, dismissLog, errors>>

\* ------------------------------------------------------- the environment
\* Time passes.  The clock is read only by the pending timers, so it is
\* followed only while one of them is waiting for it.
Tick(d) ==
    /\ ~unloaded /\ Ready
    /\ ticks < MaxTicks
    /\ \E i \in 1..Len(timers) : timers[i].due > now
    /\ now' = now + d
    /\ ticks' = ticks + 1
    /\ UNCHANGED <<script, domVars, alertVars, ran, unloaded, focused,
                   focusLog, observers, timers, inputs, logVars>>

\* An input element is taken out of the document, and so out of its form.
Detach(el) ==
    /\ ~unloaded /\ Ready
    /\ status[el] = "attached"
    /\ status' = [status EXCEPT ![el] = "detached"]
    /\ focused' = IF focused = el THEN NoElem ELSE focused
    /\ UNCHANGED <<script, page, form, value, alertVars, ran, unloaded, focusLog,
                   observers, timers, now, ticks, inputs, logVars>>

\* A later script or the user agent appends an input element to the document
\* after the page-ready handlers have run; n bounds the elements of the page.
AddElement(e, n) ==
    /\ ~unloaded /\ Ready
    /\ Len(page) < n
    /\ UniqueId(Append(page, e))
    /\ page' = Append(page, e)
    /\ status' = Append(status, "attached")
    /\ value' = Append(value, <<>>)
    /\ UNCHANGED <<script, form, alertVars, ran, unloaded, focused, focusLog,
                   observers, timers, now, ticks, inputs, logVars>>

\* The user closes a flash message by hand before its timer does.
UserDismiss(m) ==
    /\ ~unloaded /\ Ready
    /\ alertState[m].attached
    /\ alertState' = [alertState EXCEPT ![m].attached = FALSE]
    /\ UNCHANGED <<script, domVars, alerts, ran, unloaded, focused, focusLog,
                   observers, timers, now, ticks, inputs, logVars>>

\* Leaving the page tears down its pending timers.
Unload ==
    /\ ~unloaded /\ Ready
    /\ unloaded' = TRUE
    /\ timers' = <<>>
    /\ UNCHANGED <<script, domVars, alertVars, ran, focused, focusLog,
                   observers, now, ticks, inputs, logVars>>

Next ==
    \/ FocusHandler
    \/ SubmitHandler
    \/ FlashHandler
    \/ \E el \in ElemIds, v \in Values : InputEvent(el, v)
    \/ \E i \in 1..Len(timers) : SubmitCallback(i)
    \/ \E i \in 1..Len(timers) : DismissCallback(i)
    \/ \E i \in 1..Len(timers) : RemoveCallback(i)
    \/ \E d \in TickSteps : Tick(d)
    \/ \E el \in ElemIds : Detach(el)
    \/ \E m \in AlertIds : UserDismiss(m)
    \/ \E e \in Elements : AddElement(e, MaxElems)
    \/ Unload

Spec == Init /\ [][Next]_vars

\* The program on a page without flash messages.
NextCode ==
    \/ FocusHandler
    \/ SubmitHandler
    \/ FlashHandler
    \/ \E el \in ElemIds, v \in Values : InputEvent(el, v)
    \/ \E i \in 1..Len(timers) : SubmitCallback(i)
    \/ \E d \in TickSteps : Tick(d)
    \/ \E el \in ElemIds : Detach(el)
    \/ Unload

SpecCode == InitCode /\ [][NextCode]_vars

\* The program on a page without input elements.
NextFlash ==
    \/ FocusHandler
    \/ SubmitHandler
    \/ FlashHandler
    \/ \E i \in 1..Len(timers) : DismissCallback(i)
    \/ \E i \in 1..Len(timers) : RemoveCallback(i)
    \/ \E d \in TickSteps : Tick(d)
    \/ \E m \in AlertIds : UserDismiss(m)
    \/ Unload

SpecFlash == InitFlash /\ [][NextFlash]_vars

\* The dispatch of DOMContentLoaded alone.
NextLookup ==
    \/ FocusHandler
    \/ SubmitHandler
    \/ FlashHandler

SpecLookup == InitLookup /\ [][NextLookup]_vars

\* The program on a page that gains input elements after page-ready.
NextAdded ==
    \/ FocusHandler
    \/ SubmitHandler
    \/ FlashHandler
    \/ \E e \in Elements : AddElement(e, MaxElems + MaxAdded)
    \/ \E el \in ElemIds, v \in Values : InputEvent(el, v)
    \/ \E el \in ElemIds : Detach(el)

SpecAdded == InitCode /\ [][NextAdded]_vars
\* ------------------------------------------------------------ fairness
\* Time passes for as long as a timer waits for it.
Wait(d) ==
    /\ ~unloaded /\ Ready
    /\ \E i \in 1..Len(timers) : timers[i].due > now
    /\ now' = now + d
    /\ UNCHANGED <<script, domVars, alertVars, ran, unloaded, focused,
                   focusLog, observers, timers, ticks, inputs, logVars>>

\* The program on a page the user stays on, whose input keeps its form: the
\* event loop dispatches DOMContentLoaded, time passes while a timer waits
\* and a timer that is due is run.
InitFair == InitCode /\ form = "form"

NextFair ==
    \/ FocusHandler
    \/ SubmitHandler
    \/ FlashHandler
    \/ \E el \in ElemIds, v \in Values : InputEvent(el, v)
    \/ \E i \in 1..Len(timers) : SubmitCallback(i)
    \/ \E d \in TickSteps : Wait(d)

SpecFair ==
    /\ InitFair /\ [][NextFair]_vars
    /\ WF_vars(FocusHandler \/ SubmitHandler \/ FlashHandler)
    /\ WF_vars(\E i \in 1..Len(timers) : SubmitCallback(i))
    /\ WF_vars(\E d \in TickSteps : Wait(d))

\* ======================================================================
\* Properties
\* ======================================================================
Observed(el) == \E k \in 1..Len(observers) : observers[k] = el

PendingSubmits == {k \in 1..Len(timers) : timers[k].kind = "submit"}

\* This step is an input event on element el.
InputStep(el) == inputs' = inputs + 1 /\ value'[el] # value[el]

\* This step runs the callback of the pending timer k.
CallbackStep(k) ==
    /\ k \in 1..Len(timers)
    /\ elapsed'[timers[k].kind] = elapsed[timers[k].kind] + 1
    /\ SubSeq(timers', 1, Len(timers) - 1) = Remove(timers, k)

\* ---------------------------------------------------------------- C1
\* An input event that leaves a value of length exactly 6 in the observed
\* field appends one submit timer due 500 ms after the event.
C1_Scheduled ==
    \A el \in ElemIds :
        (InputStep(el) /\ Observed(el) /\ Len(value'[el]) = 6) =>
            timers' = Append(timers,
                [kind |-> "submit", target |-> el, delay |-> 500,
                 due |-> now + 500, scheduledValue |-> value'[el]])

\* form.submit() is invoked only by a submit timer that has come due, once.
C1_NotEarlier ==
    submitLog' # submitLog =>
        \E k \in PendingSubmits :
            /\ CallbackStep(k)
            /\ now >= timers[k].due
            /\ Len(submitLog') = Len(submitLog) + 1

\* A one-shot timer that elapses on a field with an owning form invokes
\* form.submit() exactly once and is gone.
C1_OncePerTimer ==
    \A k \in PendingSubmits :
        (CallbackStep(k) /\ FormOf(timers[k].target) # Null) =>
            /\ Len(submitLog') = Len(submitLog) + 1
            /\ timers' = Remove(timers, k)

\* C1: an input event that leaves a value of length exactly 6 in the observed
\* field schedules one submit timer due 500 ms after the event; form.submit()
\* is invoked only by an elapsed submit timer, never before the timer is due,
\* and a timer that elapses on a field with an owning form invokes it exactly
\* once.
C1_SubmitOncePerWindow ==
    [][C1_Scheduled /\ C1_NotEarlier /\ C1_OncePerTimer]_vars

\* Two 6-character input events 250 ms apart have each led to one submit.
C1_Witness ==
    /\ Len(submitLog) = 2
    /\ elapsed["submit"] = 2
    /\ inputs = 2

\* ---------------------------------------------------------------- C2
\* C2: at most one pending submit timer exists for the code-entry field.
C2_AtMostOnePendingSubmit ==
    \A el \in ElemIds :
        Cardinality({k \in PendingSubmits : timers[k].target = el}) <= 1

\* ---------------------------------------------------------------- C3
\* C3: an input event that leaves a value whose length is not 6 schedules
\* nothing: the pending timers and the submits are as they were.
C3_OtherLengthSchedulesNothing ==
    [][\A el \in ElemIds :
          (InputStep(el) /\ Len(value'[el]) # 6) =>
              (timers' = timers /\ submitLog' = submitLog)]_vars

\* Two input events have left values of other lengths in the observed field,
\* the last one 5 characters long, and nothing is scheduled.
C3_Witness ==
    /\ inputs = 2 /\ ~unloaded
    /\ \E el \in ElemIds : Observed(el) /\ Len(value[el]) = 5
    /\ timers = <<>>
    /\ elapsed["submit"] = 0

\* ---------------------------------------------------------------- C4
\* C4: no page-ready handler and no timer callback raises an error.
C4_NeverThrows == errors = 0

\* ---------------------------------------------------------------- C5
\* C5: the element focused and observed is the element with id 'code' if
\* there is one, otherwise the first input with the 6-digit pattern, otherwise
\* the first input with maxlength 6; every handler that has run found it.
HasId(el)        == page[el].id = "code"
HasPattern(el)   == page[el].pattern = "[0-9]{6}"
HasMaxlength(el) == page[el].maxlength = "6"

Expected(el) ==
    \/ HasId(el)
    \/ /\ \A j \in ElemIds : ~HasId(j)
       /\ HasPattern(el)
       /\ \A j \in 1..(el - 1) : ~HasPattern(j)
    \/ /\ \A j \in ElemIds : ~HasId(j) /\ ~HasPattern(j)
       /\ HasMaxlength(el)
       /\ \A j \in 1..(el - 1) : ~HasMaxlength(j)

HandlersRun(kind) ==
    Cardinality({k \in 1..ran : Handlers(script)[k] = kind})

C5_LookupOrder ==
    /\ \A k \in 1..Len(focusLog) : Expected(focusLog[k])
    /\ \A k \in 1..Len(observers) : Expected(observers[k])
    /\ (\E el \in ElemIds : Expected(el)) =>
          /\ Len(focusLog) = HandlersRun("focus")
          /\ Len(observers) = HandlersRun("submit")

\* An element with id 'code' that follows a pattern-matching element in the
\* document has been focused and is observed.
C5_Witness ==
    /\ Ready
    /\ \E el \in ElemIds :
          /\ HasId(el) /\ ~HasPattern(el)
          /\ \E j \in 1..(el - 1) : HasPattern(j)
          /\ focused = el
          /\ Observed(el)

\* ---------------------------------------------------------------- C6
\* C6: on a page with an input whose id is 'code', once the page-ready
\* handlers have run that input has the focus.
C6_IdInputFocused ==
    \A el \in ElemIds : (Ready /\ HasId(el)) => focused = el

C6_Witness ==
    /\ Ready
    /\ \E el \in ElemIds :
          HasId(el) /\ ~HasPattern(el) /\ ~HasMaxlength(el) /\ focused = el

\* ---------------------------------------------------------------- C7
\* C7: on a page where no element matches any of the three rules, page-ready
\* raises no error, nothing is focused, no observer is attached and no submit
\* timer is ever scheduled.
NoMatch == \A el \in ElemIds : ~HasId(el) /\ ~HasPattern(el) /\ ~HasMaxlength(el)

C7_NoMatchNoAction ==
    NoMatch =>
        /\ errors = 0
        /\ focused = NoElem /\ focusLog = <<>>
        /\ observers = <<>>
        /\ PendingSubmits = {}
        /\ elapsed["submit"] = 0
        /\ submitLog = <<>>

\* A 6-character value has been typed into an input that matches no rule.
C7_Witness ==
    /\ NoMatch /\ Ready
    /\ inputs = 2
    /\ \E el \in ElemIds : Len(value[el]) = 6

\* ---------------------------------------------------------------- C8
Dismissals(m) == {k \in 1..Len(dismissLog) : dismissLog[k].msg = m}

PendingDismiss(m) ==
    {k \in 1..Len(timers) : timers[k].kind = "dismiss" /\ timers[k].target = m}

\* A message is dismissed at most once; under the script with the flash
\* handler it has either its pending timer or its one dismissal.
C8_Once ==
    \A m \in AlertIds :
        /\ Cardinality(Dismissals(m)) <= 1
        /\ alertState[m].clicks <= 1
        /\ (script = "part_000" /\ Ready /\ ~unloaded) =>
              Cardinality(Dismissals(m)) + Cardinality(PendingDismiss(m)) = 1

\* Dismissal and removal happen 300,000 ms after page-ready or later.
C8_NotEarlier ==
    /\ dismissLog' # dismissLog => now >= 300000
    /\ elapsed'["remove"] # elapsed["remove"] => now >= 300000

\* C8: each error flash message present at page-ready is dismissed by its
\* timer (its close button clicked, or its fade started and the message then
\* removed) no earlier than 300,000 ms after page-ready, and at most once:
\* once if its timer has elapsed, not at all while the timer is pending.
C8_DismissedOnceAfterDelay == []C8_Once /\ [][C8_NotEarlier]_vars

\* Two messages, one with a close button and one without, have both been
\* dismissed.
C8_Witness ==
    /\ Len(alerts) = 2
    /\ \A m \in AlertIds : Cardinality(Dismissals(m)) = 1
    /\ \E m \in AlertIds : alertState[m].clicks = 1
    /\ \E m \in AlertIds : alertState[m].opacity = "0"

\* ---------------------------------------------------------------- C9
\* C9: the script that declares auto-submit disabled never submits the form.
C9_DisabledNeverSubmits == script = "part_000" => submitLog = <<>>

\* ---------------------------------------------------------------- C10
\* An input event leaves every pending timer in place.
C10_InputKeepsTimers ==
    (inputs' = inputs + 1) =>
        /\ Len(timers') >= Len(timers)
        /\ SubSeq(timers', 1, Len(timers)) = timers

\* A pending timer leaves the queue only when its callback runs or the page
\* is left.
C10_OnlyUnloadPrevents ==
    (PendingSubmits # {} /\ Len(timers') < Len(timers)) =>
        \/ unloaded'
        \/ \E k \in 1..Len(timers) : CallbackStep(k)

\* The callback submits the owning form with the value the field holds then,
\* whatever its length.
C10_EditedStillSubmitted ==
    \A k \in PendingSubmits :
        (CallbackStep(k) /\ FormOf(timers[k].target) # Null) =>
            submitLog' = Append(submitLog,
                [form |-> form, value |-> value[timers[k].target]])

\* C10: later input never cancels a pending submit timer: an input event
\* leaves every pending timer in place, a pending timer leaves the queue only
\* when its callback runs or the page is left, and a callback that runs on a
\* field with an owning form submits it whatever the field then holds.
C10_NeverCancelled ==
    [][C10_InputKeepsTimers /\ C10_OnlyUnloadPrevents
        /\ C10_EditedStillSubmitted]_vars

\* A form has been submitted by a timer after its field was edited to a value
\* that is no longer 6 characters long.
C10_Witness ==
    /\ inputs = 2
    /\ \E k \in 1..Len(submitLog) : Len(submitLog[k].value) # 6

\* ---------------------------------------------------------------- C11
Last(s) == s[Len(s)]

Range(s) == {s[k] : k \in 1..Len(s)}

\* This step is the callback of the pending submit timer k submitting a form.
SubmitStep(k) ==
    /\ k \in PendingSubmits
    /\ CallbackStep(k)
    /\ Len(submitLog') = Len(submitLog) + 1

\* C11 as stated: a submit timer that fires submits the value the field held
\* when the timer was scheduled, also when the field was edited since.
C11_SubmitsScheduledValue ==
    [][\A k \in 1..Len(timers) :
          SubmitStep(k) => Last(submitLog').value = timers[k].scheduledValue]_vars

\* C11: a submit timer that fires after the field was edited submits the
\* value the field holds when the timer fires, which is then not the value
\* that scheduled it.
C11_SubmitsCurrentValue ==
    [][\A k \in 1..Len(timers) :
          SubmitStep(k) =>
              /\ Last(submitLog').value = value[timers[k].target]
              /\ value[timers[k].target] # timers[k].scheduledValue =>
                    Last(submitLog').value # timers[k].scheduledValue]_vars

\* A form has been submitted with a 7-character value: the sixth character
\* scheduled the timer and the seventh was typed before the timer fired.
C11_Witness ==
    /\ inputs = 2
    /\ elapsed["submit"] = 1
    /\ Len(submitLog) = 1
    /\ Len(submitLog[1].value) = 7

\* ---------------------------------------------------------------- C12
\* This step is the callback of the pending timer k, which is of this kind.
KindStep(k, kind) ==
    /\ k \in 1..Len(timers)
    /\ timers[k].kind = kind
    /\ CallbackStep(k)

\* With a close button in the message: the button is clicked, the style is
\* left alone and no removal is scheduled.
C12_ControlBranch ==
    \A k \in 1..Len(timers) :
        (KindStep(k, "dismiss") /\ alerts[timers[k].target].closeButton) =>
            /\ alertState' =
                  [alertState EXCEPT ![timers[k].target].clicks = @ + 1]
            /\ timers' = Remove(timers, k)

\* Without one: the fade is started, nothing is clicked, the message stays
\* attached and its removal is scheduled 500 ms later.
C12_FallbackBranch ==
    \A k \in 1..Len(timers) :
        (KindStep(k, "dismiss") /\ ~alerts[timers[k].target].closeButton) =>
            /\ alertState' =
                  [alertState EXCEPT
                      ![timers[k].target].opacity = "0",
                      ![timers[k].target].transition = "opacity 0.5s"]
            /\ timers' = Append(Remove(timers, k),
                  [kind |-> "remove", target |-> timers[k].target,
                   delay |-> 500, due |-> now + 500,
                   scheduledValue |-> <<>>])

\* The script detaches a message only from its removal timer, 500 ms after
\* the fade or later, and the fade of that message has been started.
C12_DetachAfterFade ==
    \A k \in 1..Len(timers) :
        KindStep(k, "remove") =>
            /\ alertState[timers[k].target].opacity = "0"
            /\ alertState[timers[k].target].transition = "opacity 0.5s"
            /\ now >= timers[k].due
            /\ ~alertState'[timers[k].target].attached

\* Per message at most one branch has run, and the branch is chosen by the
\* close button: a message with one is never faded and never gets a removal
\* timer, a message without one is never clicked.
C12_OneBranch ==
    \A m \in AlertIds :
        /\ Cardinality(Dismissals(m)) = 1 =>
              (alertState[m].clicks = 1) # (alertState[m].opacity = "0")
        /\ alerts[m].closeButton =>
              /\ alertState[m].opacity = "" /\ alertState[m].transition = ""
              /\ \A k \in 1..Len(timers) :
                    ~(timers[k].kind = "remove" /\ timers[k].target = m)
        /\ ~alerts[m].closeButton => alertState[m].clicks = 0
        /\ elapsed["remove"] + Cardinality({k \in 1..Len(timers) :
                                              timers[k].kind = "remove"})
              <= Cardinality({k \in 1..Len(dismissLog) :
                                 dismissLog[k].how = "fade"})

\* C12: when a message's dismiss timer fires, a message that contains a close
\* button has the button clicked and is neither faded nor scheduled for
\* removal; a message without one has its opacity set to zero with a 0.5 s
\* transition and is detached by a timer 500 ms later, never before the fade
\* has been started.  Exactly one of the two branches runs per message.
C12_DismissBranches ==
    /\ []C12_OneBranch
    /\ [][C12_ControlBranch /\ C12_FallbackBranch /\ C12_DetachAfterFade]_vars

\* Of two messages the one with a close button has been clicked and is still
\* attached, the one without has been faded and then removed by its timer.
C12_Witness ==
    /\ Len(alerts) = 2
    /\ elapsed["dismiss"] = 2 /\ elapsed["remove"] = 1
    /\ \E m \in AlertIds :
          /\ alerts[m].closeButton
          /\ alertState[m].clicks = 1 /\ alertState[m].attached
    /\ \E m \in AlertIds :
          /\ ~alerts[m].closeButton
          /\ alertState[m].opacity = "0" /\ ~alertState[m].attached

\* ---------------------------------------------------------------- C13
DismissTimers == {k \in 1..Len(timers) : timers[k].kind = "dismiss"}

\* The flash handler creates one dismiss timer per error message, in document
\* order, all due 300,000 ms after page-ready.
C13_OnePerMessage ==
    (ran' = ran + 1 /\ NextHandler = "flash") =>
        timers' = timers \o
            [m \in 1..Len(alerts) |->
                [kind |-> "dismiss", target |-> m, delay |-> 300000,
                 due |-> now + 300000, scheduledValue |-> <<>>]]

\* With N error messages, N dismiss timers are pending after page-ready, less
\* those that have fired.
C13_Pending ==
    (script = "part_000" /\ Ready /\ ~unloaded) =>
        /\ Cardinality(DismissTimers) = Len(alerts) - elapsed["dismiss"]
        /\ \A m \in AlertIds :
              Cardinality(PendingDismiss(m)) + Cardinality(Dismissals(m)) = 1

\* The callback of one message's timer leaves every other message, its
\* pending timer and its dismissals as they were.
C13_OthersUntouched ==
    \A k \in 1..Len(timers) :
        KindStep(k, "dismiss") =>
            \A m \in AlertIds \ {timers[k].target} :
                /\ alertState'[m] = alertState[m]
                /\ {t \in Range(timers') : t.target = m}
                      = {t \in Range(timers) : t.target = m}
                /\ {e \in Range(dismissLog') : e.msg = m}
                      = {e \in Range(dismissLog) : e.msg = m}

\* The user's removal of a message by hand changes that message only: every
\* timer stays pending and nothing is dismissed.
C13_ManualRemoval ==
    (\E m \in AlertIds : alertState[m].attached /\ ~alertState'[m].attached
                         /\ elapsed' = elapsed) =>
        /\ timers' = timers
        /\ dismissLog' = dismissLog
        /\ \A m \in AlertIds :
              alertState'[m] = alertState[m]
              \/ alertState'[m] = [alertState[m] EXCEPT !.attached = FALSE]

\* A dismiss timer that is due can fire whichever other timers are pending.
C13_DueCanFire ==
    \A k \in DismissTimers :
        (timers[k].due <= now /\ ~unloaded) => ENABLED DismissCallback(k)

\* The oldest pending dismiss timer can fire as soon as it is due: no other
\* message's dismissal or removal stands in its way.
C13_OldestCanFire ==
    \A k \in DismissTimers :
        (k = Min(DismissTimers) /\ timers[k].due <= now /\ ~unloaded) =>
            ENABLED DismissCallback(k)

\* The dismiss timers, created together with one delay, fire in the order
\* they were created in: the order of the messages in the document.
C13_DocumentOrder ==
    \A k \in 1..Len(dismissLog) : dismissLog[k].msg = k

\* C13 as stated: one timer per message, N pending after page-ready, each
\* able to fire once due in any order relative to the others, none
\* preventing or triggering another's dismissal.
C13_IndependentAnyOrder ==
    /\ [](C13_Pending /\ C13_DueCanFire)
    /\ [][C13_OnePerMessage /\ C13_OthersUntouched /\ C13_ManualRemoval]_vars

\* C13: each error message present at page-ready gets its own one-shot timer,
\* scheduled at page-ready, so that N messages leave N dismiss timers pending;
\* the timers fire in document order (the order they were created in, their
\* delays being equal), and the dismissal of one message or its earlier
\* removal by the user neither prevents nor triggers the dismissal of
\* another.
C13_IndependentInOrder ==
    /\ [](C13_Pending /\ C13_OldestCanFire /\ C13_DocumentOrder)
    /\ [][C13_OnePerMessage /\ C13_OthersUntouched /\ C13_ManualRemoval]_vars

\* Of two messages the first was removed by the user before the timers were
\* due; both timers have fired since.
C13_Witness ==
    /\ Len(alerts) = 2
    /\ alerts[1].closeButton /\ ~alertState[1].attached
    /\ Len(dismissLog) = 2
    /\ alertState[1].clicks = 1
    /\ timers = <<>> /\ ~unloaded

\* ---------------------------------------------------------------- C14
\* The pending timers of the code input, and those of the flash messages.
SubmitTimers(ts) ==
    LET IsSubmit(t) == t.kind = "submit" IN SelectSeq(ts, IsSubmit)

FlashTimers(ts) ==
    LET IsFlash(t) == t.kind # "submit" IN SelectSeq(ts, IsFlash)

\* The timers of the flash messages other than m.
FlashTimersBut(ts, m) ==
    LET IsOther(t) == t.kind # "submit" /\ t.target # m IN SelectSeq(ts, IsOther)

\* A dismiss or removal callback changes the style and attachment of its own
\* message only; the other messages and their timers, the input elements,
\* their values, the focus, the pending submit timers and the submissions
\* stay as they were.
C14_FlashFrame ==
    \A k \in 1..Len(timers) :
        (KindStep(k, "dismiss") \/ KindStep(k, "remove")) =>
            /\ \A m \in AlertIds \ {timers[k].target} :
                  alertState'[m] = alertState[m]
            /\ FlashTimersBut(timers', timers[k].target)
                  = FlashTimersBut(timers, timers[k].target)
            /\ SubmitTimers(timers') = SubmitTimers(timers)
            /\ UNCHANGED <<page, form, status, value, alerts, focused,
                           observers, submitLog, errors>>

\* A submit callback leaves the flash messages and their timers as they were,
\* and the other submit timers as well.
C14_SubmitFrame ==
    \A k \in 1..Len(timers) :
        KindStep(k, "submit") =>
            /\ FlashTimers(timers') = FlashTimers(timers)
            /\ timers' = Remove(timers, k)
            /\ UNCHANGED <<alerts, alertState, dismissLog, page, status,
                           value, focused, observers>>

\* C14: each timer callback touches only its own captured element: a flash
\* timer changes the style and attachment of the message it was scheduled for
\* and leaves every other message, the code input's value and the pending
\* submit timers unchanged; a submit timer leaves all flash messages and
\* their timers unchanged.
C14_OwnElementOnly == [][C14_FlashFrame /\ C14_SubmitFrame]_vars

\* A message was faded while a submit timer was pending, and the submit timer
\* has fired while that message's removal and another message's dismissal
\* were pending.
C14_Witness ==
    /\ elapsed["dismiss"] = 1 /\ elapsed["submit"] = 1
    /\ Len(submitLog) = 1
    /\ \E k \in 1..Len(timers) : timers[k].kind = "remove"
    /\ \E k \in 1..Len(timers) : timers[k].kind = "dismiss"

\* ---------------------------------------------------------------- C15
\* This step is a run of the focus handler.
FocusStep == ran' = ran + 1 /\ NextHandler = "focus"

\* A run of the focus handler after an earlier run calls focus() on the same
\* element again, or on none again, and changes nothing on the page.
C15_SecondRun ==
    (FocusStep /\ HandlersRun("focus") >= 1) =>
        /\ focused' = focused
        /\ focusLog' = IF focused = NoElem
                       THEN focusLog
                       ELSE Append(focusLog, focused)
        /\ UNCHANGED <<script, page, form, status, value, alerts, alertState,
                       unloaded, observers, timers, now, ticks, inputs,
                       elapsed, submitLog, dismissLog, errors>>

\* However often the handler has run, focus() was called on one element only
\* and that element has the focus.
C15_OneElement ==
    \A k \in 1..Len(focusLog) : focusLog[k] = focused

\* C15: focus-on-load is idempotent: running the focus handler two or more
\* times on the same page leaves the page as running it once does, with the
\* same element focused and nothing else changed.
C15_FocusIdempotent == []C15_OneElement /\ [][C15_SecondRun]_vars

\* The script with two focus handlers has run both on a page with a matching
\* element that is not the first input of the document.
C15_Witness ==
    /\ script = "part_000"
    /\ HandlersRun("focus") = 2
    /\ Len(focusLog) = 2
    /\ focused > 1
    /\ focusLog[1] = focused /\ focusLog[2] = focused

\* ---------------------------------------------------------------- C16
\* The submit timers created so far: those that have fired and those pending.
Scheduled == elapsed["submit"] + Cardinality(PendingSubmits)

\* Every 6-character input event on the observed field creates one timer,
\* and no other step creates or drops one.
C16_OnePerEvent ==
    /\ \A el \in ElemIds :
          (InputStep(el) /\ Observed(el) /\ Len(value'[el]) = 6) =>
              Scheduled' = Scheduled + 1
    /\ (\A el \in ElemIds :
          ~(InputStep(el) /\ Observed(el) /\ Len(value'[el]) = 6)) =>
              Scheduled' = Scheduled

\* The timer that fires is the oldest pending one: the submits come in the
\* order of the events that scheduled them.
C16_InOrder ==
    elapsed'["submit"] = elapsed["submit"] + 1 =>
        /\ PendingSubmits # {}
        /\ timers' = Remove(timers, Min(PendingSubmits))
        /\ \A j \in PendingSubmits :
              timers[Min(PendingSubmits)].due <= timers[j].due

\* Every timer that has fired has submitted the form, once.
C16_OneSubmitEach == Len(submitLog) = elapsed["submit"]

\* C16: with timers run fairly, the page not left and the input keeping its
\* form, every input event with a 6-character value is eventually followed
\* by a submit of the form: the n-th such event leads to the n-th submit, k
\* events to k submits, in the order of the events.
C16_EverySixSubmits ==
    /\ \A n \in 1..MaxInputs : (Scheduled >= n) ~> (Len(submitLog) >= n)
    /\ []C16_OneSubmitEach
    /\ [][C16_OnePerEvent /\ C16_InOrder]_vars

\* Two 6-character input events have led to two submits and no timer is left.
C16_Witness ==
    /\ inputs = 2
    /\ Scheduled = 2
    /\ Len(submitLog) = 2
    /\ timers = <<>>

\* ---------------------------------------------------------------- C17
\* Every observed element is an element focus() was called on; under a
\* script with both handlers, once both have run, the elements focus() was
\* called on are the observed ones, and there is at most one.
C17_SameElement ==
    /\ Range(observers) \subseteq Range(focusLog)
    /\ (Ready /\ HandlersRun("submit") > 0) =>
          Range(focusLog) = Range(observers)
    /\ Cardinality(Range(observers) \cup Range(focusLog)) <= 1

\* After page-ready no lookup is made: no element gains an observer or a
\* focus() call, and an element added to the page does not take the focus.
C17_LookupOnce ==
    /\ Ready => (observers' = observers /\ focusLog' = focusLog)
    /\ Len(page') > Len(page) =>
          /\ focused' = focused
          /\ SubSeq(page', 1, Len(page)) = page

\* Input events are heard on the element found at page-ready and on no
\* other, whatever was added to the page since.
C17_HeardOnFoundOnly ==
    \A el \in ElemIds :
        /\ (InputStep(el) /\ ~Observed(el)) => timers' = timers
        /\ (InputStep(el) /\ Observed(el) /\ Len(value'[el]) = 6) =>
              Len(timers') = Len(timers) + Cardinality({k \in 1..Len(observers) :
                                                         observers[k] = el})

\* C17: the focus handler and the auto-submit handler each run the lookup at
\* page-ready and select the same element: the element that receives focus
\* is the element whose input events are observed.  The lookup is never
\* repeated: a matching element added after page-ready is neither focused
\* nor observed, and the observer stays on the element found first.
C17_LookupAtReadyOnly ==
    /\ []C17_SameElement
    /\ [][C17_LookupOnce /\ C17_HeardOnFoundOnly]_vars

\* The input found by its maxlength has the focus and the observer;
\* an input with id 'code', which a repeated lookup would prefer, was added
\* after page-ready and a 6-character value typed into it scheduled nothing.
C17_Witness ==
    /\ Len(page) = 2
    /\ ~HasId(1) /\ HasMaxlength(1) /\ HasId(2)
    /\ focused = 1 /\ Observed(1) /\ ~Observed(2)
    /\ Len(value[2]) = 6 /\ Len(value[1]) # 6
    /\ inputs = 1
    /\ timers = <<>>

\* ---------------------------------------------------------------- C18
\* This step adds one submit timer for el, due in 500 ms, and keeps the rest.
SchedulesSubmit(el) ==
    /\ Len(timers') = Len(timers) + 1
    /\ SubSeq(timers', 1, Len(timers)) = timers
    /\ Last(timers').kind = "submit"
    /\ Last(timers').target = el
    /\ Last(timers').due = now + 500

\* A 6-character value schedules a submit also when it holds characters that
\* are not digits.
C18_NonDigitsSchedule ==
    \A el \in ElemIds :
        (InputStep(el) /\ Observed(el)
            /\ Len(value'[el]) = 6 /\ ~AllDigits(value'[el])) =>
                SchedulesSubmit(el)

\* A value made of digits only schedules nothing unless it is 6 long.
C18_DigitsOtherLength ==
    \A el \in ElemIds :
        (InputStep(el) /\ AllDigits(value'[el]) /\ Len(value'[el]) # 6) =>
            timers' = timers

\* Whether an input event on the observed field schedules a submit is decided
\* by the length of the value alone.
C18_ByLength ==
    \A el \in ElemIds :
        (InputStep(el) /\ Observed(el)) =>
            (SchedulesSubmit(el) <=> Len(value'[el]) = 6)

\* C18: whether a submit is scheduled depends only on the length of the
\* field's value at the input event, not on its content: any 6-character
\* value schedules a submit even when its characters are not digits, and a
\* value made only of digits schedules none unless its length is exactly 6.
C18_LengthNotContent ==
    [][C18_NonDigitsSchedule /\ C18_DigitsOtherLength /\ C18_ByLength]_vars

\* After a 7-digit value that scheduled nothing, a 6-letter value has
\* scheduled the only pending submit timer.
C18_Witness ==
    /\ inputs = 2 /\ ~unloaded
    /\ elapsed["submit"] = 0
    /\ Len(timers) = 1
    /\ Len(timers[1].scheduledValue) = 6
    /\ ~AllDigits(timers[1].scheduledValue)
    /\ value[timers[1].target] = timers[1].scheduledValue

====
